---------------------------- MODULE Spec2Model ----------------------------
(***************************************************************************)
(* A model of the eight revisions of spiral_kerman (src/.history): the     *)
(* static dataset, the value mapper (radius, colour band, status), the     *)
(* easings, and the animation callback update(frame) of every revision     *)
(* together with the driver that calls it (FuncAnimation / anim.save).     *)
(*                                                                         *)
(* Numbers.  Percentages are integers in thousandths (11.40 is 11400).     *)
(* Every other real number (progress, opacity, camera angle, radius) is an *)
(* exact rational <<p, q>> with q > 0 in lowest terms.  The code computes  *)
(* in IEEE-754 doubles; every place where a double decides something       *)
(* discrete (int(...) truncation, a comparison against a threshold) was    *)
(* compared with the exact value for all frames, and the two places where  *)
(* the double differs (FloatShort, FloatBelowTie) are modelled as the      *)
(* double behaves.                                                         *)
(*                                                                         *)
(* Geometry (the x, y, z samples of a circle) is a function of the item,   *)
(* the number of points and the progress, so a line is modelled by its     *)
(* item, its number of points and its opacity.                             *)
(***************************************************************************)
EXTENDS Integers, Sequences, FiniteSets, TLC

VARIABLES
    rev,     \* the revision being run (one of Revisions)
    n,       \* n = len(vals): the number of rows of the dataset
    pc,      \* position of the script: start, rejected, built, ready, running, done, crashed
    frame,   \* the frame last passed to update(), -1 before the first call
    calls,   \* how many times in a row update() was called with that frame
    res,     \* the local variables update() computed on its last call
    art,     \* the artists update() mutates: camera, lines, texts
    vm       \* the value mapper applied to input values (SpecValue)

vars == <<rev, n, pc, frame, calls, res, art, vm>>

-----------------------------------------------------------------------------
(* Bounds of the model *)

\* update() is called with frames up to total_frames + MaxBeyond
MaxBeyond == 45
\* a caller may leave out up to MaxSkip frames between two calls of update()
MaxSkip == 2
\* the value mapper is applied to the values k/2 percent, k = -MaxNegHalf..MaxPosHalf
MaxNegHalf == 4
MaxPosHalf == 50
\* the easings are applied to the rationals k / N with N up to MaxGrid
MaxGrid == 12

-----------------------------------------------------------------------------
(* Exact rationals *)

Abs(x) == IF x < 0 THEN -x ELSE x

RECURSIVE GCD(_, _)
GCD(a, b) == IF b = 0 THEN a ELSE GCD(b, a % b)

\* p/q in lowest terms with a positive denominator
Rat(p, q) ==
    LET s == IF q < 0 THEN -1 ELSE 1
        g == GCD(Abs(p), Abs(q))
    IN  <<(s * p) \div g, (s * q) \div g>>

RInt(k) == <<k, 1>>
RAdd(a, b) == Rat(a[1] * b[2] + b[1] * a[2], a[2] * b[2])
RSub(a, b) == Rat(a[1] * b[2] - b[1] * a[2], a[2] * b[2])
RMul(a, b) ==
    LET g1 == GCD(Abs(a[1]), b[2])
        g2 == GCD(Abs(b[1]), a[2])
    IN  Rat((a[1] \div g1) * (b[1] \div g2), (a[2] \div g2) * (b[2] \div g1))
RDiv(a, b) == RMul(a, Rat(b[2], b[1]))
\* the comparisons bring both sides onto the least common denominator
RDen(a, b) == IF GCD(a[2], b[2]) = 0 THEN 1 ELSE GCD(a[2], b[2])
RLt(a, b) == a[1] * (b[2] \div RDen(a, b)) < b[1] * (a[2] \div RDen(a, b))
RLe(a, b) == a[1] * (b[2] \div RDen(a, b)) <= b[1] * (a[2] \div RDen(a, b))
RMax(a, b) == IF RLt(a, b) THEN b ELSE a
RMin(a, b) == IF RLt(b, a) THEN b ELSE a
\* Python's int(x): truncation towards zero
RTrunc(a) == IF a[1] >= 0 THEN a[1] \div a[2] ELSE -((-a[1]) \div a[2])
\* round(x * 1000) for x >= 0, half up
RMilli(a) == (2 * 1000 * a[1] + a[2]) \div (2 * a[2])

\* a local variable update() did not assign on this call
NoRat == <<0, 0>>

-----------------------------------------------------------------------------
(* The dataset *)

Revisions == {"133111", "133304", "133921", "135008", "135017",
              "073806", "075224", "081346"}

\* rows: (label, value in thousandths of a percent)
rows == <<
    <<"1404/09/01", 11400>>, <<"1404/09/02", 4440>>, <<"1404/09/03", 16810>>,
    <<"1404/09/04", 5260>>, <<"1404/09/05", 5390>>, <<"1404/09/06", 14190>>,
    <<"1404/09/08", 10050>>, <<"1404/09/09", 10630>>, <<"1404/09/10", 10930>>,
    <<"1404/09/11", 10670>>, <<"1404/09/12", 21140>>, <<"1404/09/13", 11830>>,
    <<"1404/09/15", 6330>>, <<"1404/09/16", 4970>>, <<"1404/09/17", 20750>>,
    <<"1404/09/18", 10380>>, <<"1404/09/19", 10170>>, <<"1404/09/20", 10950>>,
    <<"1404/09/21", 17530>>, <<"1404/09/22", 18050>>, <<"1404/09/23", 8280>>,
    <<"1404/09/24", 14520>>, <<"1404/09/25", 9720>>, <<"1404/09/26", 9760>>,
    <<"1404/09/27", 15620>>, <<"1404/09/28", 14760>>, <<"1404/09/29", 8340>>,
    <<"1404/09/30", 10230>> >>

\* the dataset sizes the script is run with: the rows as written, a single
\* row, and no row at all (the case the start-up guard is written for)
DataSizes == {0, 1, Len(rows)}

\* labels[i] and vals[i], 0-based as in the code
labels(i) == rows[i + 1][1]
vals(i) == rows[i + 1][2]


-----------------------------------------------------------------------------
(* ValueMapper: colour band, status and radius of a value *)

\* pct_color with a strict comparison at the lowest threshold
pct_color_strict(v) ==
    IF v >= 17000 THEN "red"
    ELSE IF v >= 9000 THEN "orange"
    ELSE IF v > 6000 THEN "light_orange"
    ELSE "green"

\* pct_color(v): the RGB triple it returns, named by its comment in the code
pct_color(v) ==
    IF v >= 17000 THEN "red"
    ELSE IF v >= 9000 THEN "orange"
    ELSE IF v >= 6000 THEN "light_orange"
    ELSE "green"

\* get_status with WARNING starting at 10 instead of 9
get_status_from_ten(v) ==
    IF v >= 17000 THEN <<"CRITICAL", "#ff3344">>
    ELSE IF v >= 10000 THEN <<"WARNING", "#ff9922">>
    ELSE IF v >= 6000 THEN <<"MODERATE", "#ffcc66">>
    ELSE <<"EXCELLENT", "#35d555">>

\* get_status(v): (status, status colour)
get_status(v) ==
    IF v >= 17000 THEN <<"CRITICAL", "#ff3344">>
    ELSE IF v >= 9000 THEN <<"WARNING", "#ff9922">>
    ELSE IF v >= 6000 THEN <<"MODERATE", "#ffcc66">>
    ELSE <<"EXCELLENT", "#35d555">>

\* revisions that define get_status
HasStatus(rv) == rv \notin {"133111", "135008", "081346"}

PCT_MAX == 22000

\* r_min, r_max (r_small, r_big); 133921 maps onto radius * [0.5, 1.0]
r_min(rv) ==
    CASE rv \in {"133111", "133304"} -> Rat(3, 10)
      [] rv = "133921" -> Rat(1, 2)
      [] rv = "135008" -> Rat(15, 100)
      [] rv \in {"135017", "073806"} -> Rat(22, 100)
      [] rv = "075224" -> Rat(25, 100)
      [] rv = "081346" -> Rat(35, 100)

r_max(rv) ==
    CASE rv \in {"133111", "133304"} -> Rat(12, 10)
      [] rv = "133921" -> Rat(1, 1)
      [] rv = "135008" -> Rat(105, 100)
      [] rv \in {"135017", "073806"} -> Rat(95, 100)
      [] rv = "075224" -> Rat(125, 100)
      [] rv = "081346" -> Rat(11, 10)

\* np.clip(x, 0, 1)
clip01(x) == RMin(RMax(x, RInt(0)), RInt(1))

\* the radius formula with r_max in place of (r_max - r_min)
radius_of_span(rv, v, vmax) ==
    IF rv = "133921"
    THEN IF vmax = 0 THEN NoRat
         ELSE RMul(RInt(1), RAdd(Rat(1, 2), RMul(Rat(1, 2), Rat(v, vmax))))
    ELSE RAdd(r_min(rv), RMul(clip01(Rat(v, PCT_MAX)), r_max(rv)))

\* the radius of a value: r_min + clip(v / PCT_MAX, 0, 1) * (r_max - r_min);
\* 133921 computes radius * (0.5 + 0.5 * v / max(vals)) with radius = 1.0,
\* where vmax = max(vals) (a division by 0.0 yields inf or nan: NoRat)
radius_of(rv, v, vmax) ==
    IF rv = "133921"
    THEN IF vmax = 0 THEN NoRat
         ELSE RMul(RInt(1), RAdd(Rat(1, 2), RMul(Rat(1, 2), Rat(v, vmax))))
    ELSE RAdd(r_min(rv), RMul(clip01(Rat(v, PCT_MAX)), RSub(r_max(rv), r_min(rv))))

Max2(a, b) == IF a >= b THEN a ELSE b

\* the input values of SpecValue: a grid of half percents and the values next
\* to the thresholds of the bands and of the clamp
ValueSet ==
    {500 * k : k \in (-MaxNegHalf) .. MaxPosHalf}
        \cup {-1, 1, 5999, 6001, 8999, 9001, 16999, 17001, 21999, 22001}

NoVm == [stage |-> "none", v |-> 0, w |-> 0, rv |-> NoRat, rw |-> NoRat,
         color |-> "", status |-> <<"", "">>]


-----------------------------------------------------------------------------
(* Easing *)

lerp(a, b, t) == RAdd(a, RMul(RSub(b, a), t))

\* an ease-in only: t * t
ease_in_quad(t) == RMul(t, t)

\* t * t * (3 - 2 * t)
ease_in_out(t) == RMul(RMul(t, t), RSub(RInt(3), RMul(RInt(2), t)))

\* 1 - pow(1 - t, 3)
ease_out_cubic(t) ==
    LET u == RSub(RInt(1), t) IN RSub(RInt(1), RMul(RMul(u, u), u))

\* an ease-out that overshoots 1 before it settles: p * (2.5 - 1.5 p)
ease_out_overshoot(p) == RMul(p, RSub(Rat(5, 2), RMul(Rat(3, 2), p)))

\* the inline ease-out 1 - (1 - p) ** 2
ease_out_quad(p) ==
    LET u == RSub(RInt(1), p) IN RSub(RInt(1), RMul(u, u))

-----------------------------------------------------------------------------
(* Animation settings of each revision *)

MultiPhase == {"133111", "073806", "075224", "081346"}
Cylinder3D == {"073806", "075224", "081346"}
DrawHold == {"133304", "133921", "135017"}
PerItem == {"133304", "133921", "135008", "135017"}

\* FRAMES_PER_CIRCLE / FRAMES_PER_ITEM
FRAMES_PER_ITEM(rv) ==
    CASE rv = "133304" -> 25
      [] rv \in {"133921", "135017"} -> 35
      [] rv = "135008" -> 18
      [] rv = "073806" -> 35
      [] rv \in {"075224", "081346"} -> 40

\* HOLD_FRAMES: the hold after each item (per-item revisions) or the final
\* hold phase (3D-transformation revisions)
HOLD_FRAMES(rv) ==
    CASE rv = "133304" -> 5
      [] rv \in {"133921", "135017"} -> 8
      [] rv = "135008" -> 0
      [] rv = "073806" -> 60
      [] rv \in {"075224", "081346"} -> 90
      [] rv = "133111" -> 0

PHASE1_FRAMES(rv, nn) ==
    IF rv = "133111" THEN 60 ELSE nn * FRAMES_PER_ITEM(rv)

PHASE2_FRAMES(rv) ==
    CASE rv = "133111" -> 80
      [] rv = "073806" -> 90
      [] rv \in {"075224", "081346"} -> 120

PHASE3_FRAMES(rv) ==
    CASE rv = "133111" -> 120
      [] rv = "073806" -> 120
      [] rv \in {"075224", "081346"} -> 150

\* total_frames without the frames of the hold
total_frames_without_hold(rv, nn) ==
    IF rv \in MultiPhase
    THEN PHASE1_FRAMES(rv, nn) + PHASE2_FRAMES(rv) + PHASE3_FRAMES(rv)
    ELSE nn * FRAMES_PER_ITEM(rv)

total_frames(rv, nn) ==
    IF rv \in MultiPhase
    THEN PHASE1_FRAMES(rv, nn) + PHASE2_FRAMES(rv) + PHASE3_FRAMES(rv) + HOLD_FRAMES(rv)
    ELSE nn * (FRAMES_PER_ITEM(rv) + HOLD_FRAMES(rv))

TRAIL(rv) ==
    CASE rv \in {"133304", "135017"} -> 8
      [] rv = "133921" -> 6
      [] rv = "135008" -> 25

\* len(theta_full) / num_points: the points of a full circle
NUM_POINTS(rv) ==
    CASE rv = "133304" -> 200
      [] rv = "133921" -> 300
      [] rv = "135017" -> 1000
      [] rv = "135008" -> 720
      [] OTHER -> 200

\* revisions that start with: if n == 0: raise SystemExit("rows is empty")
HasGuard(rv) == rv \in {"135008", "135017", "073806", "075224", "081346"}

-----------------------------------------------------------------------------
(* Text formatting *)

Digit2(k) == IF k < 10 THEN "0" \o ToString(k) ELSE ToString(k)

\* f"{v:.2f}%" of a value of the dataset (a whole number of hundredths)
Fmt2(v) == ToString(v \div 1000) \o "." \o Digit2((v % 1000) \div 10) \o "%"

\* values whose double lies below the decimal tie, so that .1f rounds down
FloatBelowTie == {10950}

\* f"{v:.1f}%" of a value of the dataset
Fmt1(v) ==
    LET tenths == IF v \in FloatBelowTie THEN v \div 100 ELSE (v + 50) \div 100
    IN  ToString(tenths \div 10) \o "." \o ToString(tenths % 10) \o "%"

-----------------------------------------------------------------------------
(* Artists *)

\* a line: the item whose circle it shows (-1: no data), the number of
\* points, the opacity, and whether it is the wide glow copy
Line(item, pts, alpha, glow) ==
    [item |-> item, pts |-> pts, alpha |-> alpha, glow |-> glow]

\* line.set_data([], []); line.set_alpha(0.0)
EmptyLine == Line(-1, 0, RInt(0), FALSE)

Text(txt, color, alpha) == [txt |-> txt, color |-> color, alpha |-> alpha]

NoText == Text("", "", NoRat)

NoRes == [phase |-> 0, local |-> -1, prog |-> NoRat, t |-> NoRat,
          item |-> -1, item_frame |-> -1, draw_raw |-> NoRat, draw |-> NoRat,
          num_show |-> -1, points |-> -1]

NoArt == [elev |-> NoRat, azim |-> NoRat, lines |-> <<>>, glows |-> <<>>,
          main |-> NoText, status |-> NoText, date |-> NoText,
          ax_texts |-> <<>>, center_texts |-> <<>>, date_labels_3d |-> <<>>]

\* the artists after the figure is built, before init() and the first frame
FigureSetup(rv, nn) ==
    CASE rv = "133111" ->
           [NoArt EXCEPT !.lines = [k \in 1 .. nn |-> EmptyLine],
                         !.date = Text("", "#aaaaaa", RInt(1)),
                         !.main = Text("", "white", RInt(1))]
      [] rv = "133304" ->
           [NoArt EXCEPT !.elev = RInt(25), !.azim = RInt(-60),
                         !.lines = [k \in 1 .. nn |-> EmptyLine],
                         !.glows = [k \in 1 .. nn |-> EmptyLine],
                         !.main = Text("", "white", Rat(95, 100)),
                         !.status = Text("", "white", Rat(9, 10)),
                         !.date = Text("", "#aaaaaa", Rat(9, 10))]
      [] rv = "133921" ->
           [NoArt EXCEPT !.elev = RInt(30), !.azim = RInt(-60),
                         !.lines = [k \in 1 .. TRAIL(rv) |-> EmptyLine]]
      [] rv = "135008" ->
           [NoArt EXCEPT !.lines = [k \in 1 .. TRAIL(rv) |-> EmptyLine],
                         !.main = Text(Fmt2(vals(0)), "white", RInt(1)),
                         !.date = Text(labels(0), "white", RInt(1))]
      [] rv = "135017" ->
           [NoArt EXCEPT !.lines = [k \in 1 .. TRAIL(rv) |-> EmptyLine],
                         !.glows = [k \in 1 .. TRAIL(rv) |-> EmptyLine],
                         !.main = Text(Fmt2(vals(0)), "#ffffff", Rat(95, 100)),
                         !.status = Text("EXCELLENT", "#35d555", Rat(9, 10)),
                         !.date = Text(labels(0), "#aaaaaa", Rat(9, 10))]
      [] rv = "073806" ->
           [NoArt EXCEPT !.elev = RInt(90), !.azim = RInt(0),
                         !.main = Text("", "#ffffff", Rat(95, 100)),
                         !.status = Text("", "#35d555", Rat(9, 10)),
                         !.date = Text("", "#aaaaaa", Rat(9, 10))]
      [] rv = "075224" ->
           [NoArt EXCEPT !.elev = RInt(90), !.azim = RInt(-90)]
      [] rv = "081346" ->
           [NoArt EXCEPT !.elev = RInt(90), !.azim = RInt(-90),
                         !.main = Text("", "#ffffff", RInt(0)),
                         !.date = Text("", "#aaaaaa", RInt(0))]


-----------------------------------------------------------------------------
(* update(frame) of the per-item revisions 133304, 133921, 135008, 135017 *)

Min2(a, b) == IF a <= b THEN a ELSE b

ItemPeriod(rv) == FRAMES_PER_ITEM(rv) + HOLD_FRAMES(rv)

\* item_frame = frame % (FRAMES_PER_ITEM + HOLD_FRAMES)
item_frame_of(rv, f) == f % ItemPeriod(rv)

\* a current item that advances by two every period
item_index_by_two(rv, f, nn) == Min2(nn - 1, 2 * (f \div ItemPeriod(rv)))

\* i = min(n - 1, frame // (FRAMES_PER_ITEM + HOLD_FRAMES))
item_index(rv, f, nn) == Min2(nn - 1, f \div ItemPeriod(rv))

\* draw_progress without the hold branch: item_frame / FRAMES_PER_ITEM on
\* every frame of the item
draw_raw_unheld(rv, f) == Rat(item_frame_of(rv, f), FRAMES_PER_ITEM(rv))

\* draw_progress before the ease-out: item_frame / FRAMES_PER_ITEM, and 1.0
\* in the hold sub-phase
draw_raw_of(rv, f) ==
    IF item_frame_of(rv, f) < FRAMES_PER_ITEM(rv)
    THEN Rat(item_frame_of(rv, f), FRAMES_PER_ITEM(rv))
    ELSE RInt(1)

\* the ease-out applied in the hold sub-phase as well
draw_progress_unheld(rv, f) == ease_out_quad(draw_raw_unheld(rv, f))

\* draw_progress = 1 - (1 - draw_progress) ** 2, or 1.0 when holding
draw_progress_of(rv, f) ==
    IF item_frame_of(rv, f) < FRAMES_PER_ITEM(rv)
    THEN ease_out_quad(draw_raw_of(rv, f))
    ELSE RInt(1)

\* the double 1 - (1 - 0.2) ** 2 is 0.3599999999999999, so int() of its
\* product with the point count is one short of the exact value
FloatShort(rv, f) ==
    IF /\ item_frame_of(rv, f) < FRAMES_PER_ITEM(rv)
       /\ 5 * item_frame_of(rv, f) = FRAMES_PER_ITEM(rv)
    THEN 1 ELSE 0

\* points_to_draw = int(num_points * draw_progress)
points_to_draw_of(rv, f) ==
    RTrunc(RMul(RInt(NUM_POINTS(rv)), draw_progress_of(rv, f))) - FloatShort(rv, f)

\* a window one item too wide
trail_start_wide(rv, i) == Max2(0, i - TRAIL(rv))

\* start = max(0, i - TRAIL + 1); recent = range(start, i + 1)
trail_start(rv, i) == Max2(0, i - TRAIL(rv) + 1)
\* denom = max(1, len(recent) - 1)
trail_denom(rv, i) == Max2(1, (i + 1 - trail_start(rv, i)) - 1)

\* a fade that makes the newest circle the faintest
trail_fade_reversed(rv, k, j, i) ==
    IF j < i THEN lerp(Rat(95, 100), Rat(15, 100), Rat(k, trail_denom(rv, i)))
    ELSE Rat(15, 100)

\* fade of the k-th visible item j when the current item is i
trail_fade(rv, k, j, i) ==
    LET x == Rat(k, trail_denom(rv, i))
    IN  CASE rv = "133304" -> IF j < i THEN lerp(Rat(20, 100), Rat(70, 100), x) ELSE Rat(95, 100)
          [] rv = "133921" -> IF j < i THEN lerp(Rat(15, 100), Rat(80, 100), x) ELSE Rat(95, 100)
          [] rv = "135017" -> IF j < i THEN lerp(Rat(15, 100), Rat(65, 100), x) ELSE Rat(95, 100)
          [] rv = "135008" -> lerp(Rat(15, 100), Rat(85, 100), x)

\* the line drawn for visible item j (k-th of recent), EmptyLine when the
\* loop body hits "continue"
trail_line(rv, f, k, j, i, glow) ==
    LET pts == IF j < i \/ rv = "135008" THEN NUM_POINTS(rv) ELSE points_to_draw_of(rv, f)
        fade == trail_fade(rv, k, j, i)
    IN  IF pts < 2 THEN EmptyLine
        ELSE Line(j, pts, IF glow THEN RMul(fade, Rat(2, 10)) ELSE fade, glow)

\* the locals of a per-item update
PerItemRes(rv, f, nn) ==
    [NoRes EXCEPT !.item = item_index(rv, f, nn),
                  !.item_frame = IF rv = "135008" THEN -1 ELSE item_frame_of(rv, f),
                  !.draw_raw = IF rv = "135008" THEN NoRat ELSE draw_raw_of(rv, f),
                  !.draw = IF rv = "135008" THEN NoRat ELSE draw_progress_of(rv, f),
                  !.points = IF rv = "135008" THEN -1 ELSE points_to_draw_of(rv, f)]

\* lines indexed by the item j (circles_3d[j], glows_3d[j]): 133304
LinesByItem(rv, f, nn, i, glow) ==
    [s \in 1 .. nn |->
        LET j == s - 1 IN
        IF j >= trail_start(rv, i) /\ j <= i
        THEN trail_line(rv, f, j - trail_start(rv, i), j, i, glow)
        ELSE EmptyLine]

\* lines indexed by the position k in recent (trail_lines[k], glow_lines[k])
LinesBySlot(rv, f, i, glow) ==
    [s \in 1 .. TRAIL(rv) |->
        LET k == s - 1
            j == trail_start(rv, i) + k IN
        IF j <= i THEN trail_line(rv, f, k, j, i, glow) ELSE EmptyLine]

\* the text fade-in: if item_frame < 10: text.set_alpha(item_frame / 10 * full)
FadeInAlpha(rv, f, old, full) ==
    IF item_frame_of(rv, f) < 10
    THEN RMul(Rat(item_frame_of(rv, f), 10), full)
    ELSE old

update_133304(a, f, nn) ==
    LET rv == "133304"
        i == item_index(rv, f, nn)
    IN  IF nn = 0 THEN [ok |-> FALSE, res |-> NoRes, art |-> a]
        ELSE [ok |-> TRUE,
              res |-> PerItemRes(rv, f, nn),
              art |-> [a EXCEPT
                  !.elev = RInt(25),
                  !.azim = RAdd(RInt(-60), RMul(Rat(f, total_frames(rv, nn)), RInt(30))),
                  !.lines = LinesByItem(rv, f, nn, i, FALSE),
                  !.glows = LinesByItem(rv, f, nn, i, TRUE),
                  !.main = Text(Fmt2(vals(i)), pct_color(vals(i)),
                                FadeInAlpha(rv, f, a.main.alpha, Rat(95, 100))),
                  !.date = Text(labels(i), a.date.color,
                                FadeInAlpha(rv, f, a.date.alpha, Rat(9, 10))),
                  !.status = Text(get_status(vals(i))[1], get_status(vals(i))[2],
                                  FadeInAlpha(rv, f, a.status.alpha, Rat(9, 10)))]]

update_133921(a, f, nn) ==
    LET rv == "133921"
        i == item_index(rv, f, nn)
    IN  IF nn = 0 THEN [ok |-> FALSE, res |-> NoRes, art |-> a]
        ELSE [ok |-> TRUE,
              res |-> PerItemRes(rv, f, nn),
              art |-> [a EXCEPT
                  !.lines = LinesBySlot(rv, f, i, FALSE),
                  !.ax_texts = << Text(labels(i), "white", RInt(1)),
                                  Text(Fmt2(vals(i)), pct_color(vals(i)), RInt(1)),
                                  Text(get_status(vals(i))[1], get_status(vals(i))[2], RInt(1)) >>]]

update_135008(a, f, nn) ==
    LET rv == "135008"
        i == item_index(rv, f, nn)
    IN  IF nn = 0 THEN [ok |-> FALSE, res |-> NoRes, art |-> a]
        ELSE [ok |-> TRUE,
              res |-> PerItemRes(rv, f, nn),
              art |-> [a EXCEPT
                  !.lines = LinesBySlot(rv, f, i, FALSE),
                  !.main = [a.main EXCEPT !.txt = Fmt2(vals(i))],
                  !.date = [a.date EXCEPT !.txt = labels(i)]]]

update_135017(a, f, nn) ==
    LET rv == "135017"
        i == item_index(rv, f, nn)
    IN  IF nn = 0 THEN [ok |-> FALSE, res |-> NoRes, art |-> a]
        ELSE [ok |-> TRUE,
              res |-> PerItemRes(rv, f, nn),
              art |-> [a EXCEPT
                  !.lines = LinesBySlot(rv, f, i, FALSE),
                  !.glows = LinesBySlot(rv, f, i, TRUE),
                  !.main = Text(Fmt2(vals(i)), pct_color(vals(i)),
                                FadeInAlpha(rv, f, a.main.alpha, Rat(95, 100))),
                  !.date = Text(labels(i), a.date.color,
                                FadeInAlpha(rv, f, a.date.alpha, Rat(9, 10))),
                  !.status = Text(get_status(vals(i))[1], get_status(vals(i))[2],
                                  FadeInAlpha(rv, f, a.status.alpha, Rat(9, 10)))]]


-----------------------------------------------------------------------------
(* update(frame) of the multi-phase revisions 133111, 073806, 075224, 081346 *)

\* if frame < PHASE1_FRAMES
InPhase1(rv, f, nn) == f < PHASE1_FRAMES(rv, nn)
\* the second test with <= : the boundary frame stays in the earlier phase
InPhase2_inclusive(rv, f, nn) == f <= PHASE1_FRAMES(rv, nn) + PHASE2_FRAMES(rv)
\* elif frame < PHASE1_FRAMES + PHASE2_FRAMES
InPhase2(rv, f, nn) == f < PHASE1_FRAMES(rv, nn) + PHASE2_FRAMES(rv)
\* the third test with <= : the hold starts one frame late
InPhase3_inclusive(rv, f, nn) ==
    f <= PHASE1_FRAMES(rv, nn) + PHASE2_FRAMES(rv) + PHASE3_FRAMES(rv)
\* elif frame < PHASE1_FRAMES + PHASE2_FRAMES + PHASE3_FRAMES
InPhase3(rv, f, nn) ==
    f < PHASE1_FRAMES(rv, nn) + PHASE2_FRAMES(rv) + PHASE3_FRAMES(rv)

\* a progress that divides by the number of frames less one, so that it is
\* 1 on the last frame of the phase
phase_progress_closed(local, count) == Rat(local, count - 1)

\* phase_progress = (frame - start) / PHASE_FRAMES
phase_progress(local, count) == Rat(local, count)

\* the branch of the if / elif / else chain that update(f) takes; the last
\* branch is an else: phase 3 in 133111, the hold (4) in the other three
phase_of(rv, f, nn) ==
    IF InPhase1(rv, f, nn) THEN 1
    ELSE IF InPhase2(rv, f, nn) THEN 2
    ELSE IF rv = "133111" THEN 3
    ELSE IF InPhase3(rv, f, nn) THEN 3
    ELSE 4

\* update() without the clearing of the artists of the previous frame
KeepArtists(xs) == xs

\* a clearing that leaves the artist created last on the figure
KeepLastArtist(xs) == IF xs = <<>> THEN <<>> ELSE << xs[Len(xs)] >>

\* for line in lines: line.remove(); lines.clear()  (and the same for
\* center_texts and date_labels_3d): the list is empty afterwards
ClearArtists(xs) == <<>>

\* a full circle of item i at the given opacity
Circle(i, alpha) == Line(i, 200, alpha, FALSE)

\* a 3D date label of item i
Label(i, alpha) == [item |-> i, txt |-> labels(i), alpha |-> alpha]

\* labels of the items range(0, n, step)
LabelsEvery(step, nn, alpha) ==
    [k \in 1 .. ((nn + step - 1) \div step) |-> Label(step * (k - 1), alpha)]

\* for i in range(n): a full circle each, at opacity alpha
AllCircles(nn, alpha) == [k \in 1 .. nn |-> Circle(k - 1, alpha)]

update_133111(a, f, nn) ==
    LET rv == "133111"
        ph == phase_of(rv, f, nn)
        p1 == phase_progress(f, PHASE1_FRAMES(rv, nn))
        idx == Min2(RTrunc(RMul(p1, RInt(nn))), nn - 1)
        l2 == f - PHASE1_FRAMES(rv, nn)
        p2 == phase_progress(l2, PHASE2_FRAMES(rv))
        t2 == ease_in_out(p2)
        show2 == RTrunc(RMul(t2, RInt(8))) + 1
        l3 == f - PHASE1_FRAMES(rv, nn) - PHASE2_FRAMES(rv)
        p3 == phase_progress(l3, PHASE3_FRAMES(rv))
        show3 == Min2(RTrunc(RMul(p3, RInt(nn))), nn)
        age(i) == RSub(RInt(1), RMul(Rat(i, Max2(1, show3)), Rat(3, 10)))
    IN  IF nn = 0 /\ ph = 1 THEN [ok |-> FALSE, res |-> NoRes, art |-> a]
        ELSE CASE ph = 1 ->
               [ok |-> TRUE,
                res |-> [NoRes EXCEPT !.phase = 1, !.local = f, !.prog = p1, !.item = idx],
                art |-> [a EXCEPT
                    !.elev = RInt(90), !.azim = RInt(0),
                    !.lines = [k \in 1 .. nn |->
                                  IF k = 1 THEN Line(idx, 200, Rat(95, 100), FALSE)
                                  ELSE EmptyLine],
                    !.date = [a.date EXCEPT !.txt = labels(idx)],
                    !.main = [a.main EXCEPT !.txt = Fmt2(vals(idx)),
                                            !.color = pct_color(vals(idx))]]]
          [] ph = 2 ->
               [ok |-> TRUE,
                res |-> [NoRes EXCEPT !.phase = 2, !.local = l2, !.prog = p2, !.t = t2,
                                      !.num_show = show2],
                art |-> [a EXCEPT
                    !.elev = lerp(RInt(90), RInt(25), t2),
                    !.azim = lerp(RInt(0), RInt(-60), t2),
                    !.lines = [k \in 1 .. nn |->
                                  IF k - 1 < Min2(show2, nn) THEN Circle(k - 1, Rat(85, 100))
                                  ELSE EmptyLine],
                    !.date = [a.date EXCEPT !.txt = "Building Cylinder..."],
                    !.main = [a.main EXCEPT !.txt = ""]]]
          [] ph = 3 ->
               [ok |-> TRUE,
                res |-> [NoRes EXCEPT !.phase = 3, !.local = l3, !.prog = p3,
                                      !.num_show = show3,
                                      !.item = IF show3 > 0 THEN show3 - 1 ELSE -1],
                art |-> [a EXCEPT
                    !.elev = RInt(25),
                    !.azim = RAdd(RInt(-60), RMul(p3, RInt(30))),
                    !.lines = [k \in 1 .. nn |->
                                  IF k - 1 < show3
                                  THEN Circle(k - 1, IF k = show3 THEN Rat(95, 100)
                                                     ELSE RMul(Rat(75, 100), age(k - 1)))
                                  ELSE EmptyLine],
                    !.date = IF show3 > 0 THEN [a.date EXCEPT !.txt = labels(show3 - 1)]
                             ELSE a.date,
                    !.main = IF show3 > 0
                             THEN [a.main EXCEPT !.txt = Fmt2(vals(show3 - 1)),
                                                 !.color = pct_color(vals(show3 - 1))]
                             ELSE a.main]]

update_073806(a, f, nn) ==
    LET rv == "073806"
        ph == phase_of(rv, f, nn)
        p1 == phase_progress(f, PHASE1_FRAMES(rv, nn))
        raw == RTrunc(RMul(p1, RInt(nn)))
        idx == IF raw >= nn THEN nn - 1 ELSE raw
        l2 == f - PHASE1_FRAMES(rv, nn)
        p2 == phase_progress(l2, PHASE2_FRAMES(rv))
        t2 == ease_in_out(p2)
        l3 == f - PHASE1_FRAMES(rv, nn) - PHASE2_FRAMES(rv)
        p3 == phase_progress(l3, PHASE3_FRAMES(rv))
        t3 == ease_in_out(p3)
        hide(x) == [x EXCEPT !.alpha = RInt(0)]
    IN  CASE ph = 1 ->
               [ok |-> TRUE,
                res |-> [NoRes EXCEPT !.phase = 1, !.local = f, !.prog = p1, !.item = idx],
                art |-> [a EXCEPT
                    !.elev = RInt(90), !.azim = RInt(0),
                    !.lines = ClearArtists(a.lines) \o [k \in 1 .. idx + 1 |->
                                  Circle(k - 1, IF k - 1 = idx THEN Rat(8, 10) ELSE Rat(4, 10))],
                    !.date_labels_3d = ClearArtists(a.date_labels_3d),
                    !.main = [a.main EXCEPT !.txt = Fmt2(vals(idx)),
                                            !.color = pct_color(vals(idx))],
                    !.date = [a.date EXCEPT !.txt = labels(idx)],
                    !.status = [a.status EXCEPT !.txt = get_status(vals(idx))[1],
                                                !.color = get_status(vals(idx))[2]]]]
          [] ph = 2 ->
               [ok |-> TRUE,
                res |-> [NoRes EXCEPT !.phase = 2, !.local = l2, !.prog = p2, !.t = t2],
                art |-> [a EXCEPT
                    !.elev = RSub(RInt(90), RMul(RInt(40), t2)), !.azim = RInt(0),
                    !.lines = ClearArtists(a.lines) \o AllCircles(nn, Rat(7, 10)),
                    !.date_labels_3d = ClearArtists(a.date_labels_3d),
                    !.main = [a.main EXCEPT !.alpha = RMul(Rat(95, 100), RSub(RInt(1), t2))],
                    !.status = [a.status EXCEPT !.alpha = RMul(Rat(9, 10), RSub(RInt(1), t2))],
                    !.date = [a.date EXCEPT !.alpha = RMul(Rat(9, 10), RSub(RInt(1), t2))]]]
          [] ph = 3 ->
               [ok |-> TRUE,
                res |-> [NoRes EXCEPT !.phase = 3, !.local = l3, !.prog = p3, !.t = t3],
                art |-> [a EXCEPT
                    !.elev = RSub(RInt(50), RMul(RInt(50), t3)),
                    !.azim = RAdd(RInt(0), RMul(RInt(0), t3)),
                    !.lines = ClearArtists(a.lines) \o AllCircles(nn, Rat(8, 10)),
                    !.date_labels_3d = ClearArtists(a.date_labels_3d) \o
                        (IF RLt(Rat(1, 2), t3)
                         THEN LabelsEvery(3, nn, RMul(RSub(t3, Rat(1, 2)), RInt(2)))
                         ELSE <<>>),
                    !.main = hide(a.main), !.status = hide(a.status), !.date = hide(a.date)]]
          [] ph = 4 ->
               [ok |-> TRUE,
                res |-> [NoRes EXCEPT !.phase = 4],
                art |-> [a EXCEPT
                    !.elev = RInt(0), !.azim = RInt(0),
                    !.lines = ClearArtists(a.lines) \o AllCircles(nn, Rat(8, 10)),
                    !.date_labels_3d = ClearArtists(a.date_labels_3d) \o LabelsEvery(2, nn, Rat(9, 10)),
                    !.main = hide(a.main), !.status = hide(a.status), !.date = hide(a.date)]]


\* PHASE 1 of 075224 and 081346: the circle being drawn and its progress
circle_idx_of(rv, f, nn) ==
    IF f \div FRAMES_PER_ITEM(rv) >= nn THEN nn - 1 ELSE f \div FRAMES_PER_ITEM(rv)

circle_progress_of(rv, f, nn) ==
    IF f \div FRAMES_PER_ITEM(rv) >= nn THEN RInt(1)
    ELSE ease_out_cubic(Rat(f % FRAMES_PER_ITEM(rv), FRAMES_PER_ITEM(rv)))

\* the previous circles, then the current circle and its glow once it has
\* at least two points
Phase1Lines(rv, f, nn) ==
    LET ci == circle_idx_of(rv, f, nn)
        cp == circle_progress_of(rv, f, nn)
        np == RTrunc(RMul(RInt(200), cp))
    IN  [k \in 1 .. ci |->
            Circle(k - 1, RMax(RSub(Rat(1, 2), RMul(RInt(k - 1), Rat(15, 1000))),
                               Rat(15, 100)))]
        \o (IF ci < nn /\ np >= 2
            THEN << Line(ci, np, Rat(95, 100), FALSE), Line(ci, np, Rat(3, 10), TRUE) >>
            ELSE <<>>)

Phase1Res(rv, f, nn) ==
    [NoRes EXCEPT !.phase = 1, !.local = f,
                  !.item = circle_idx_of(rv, f, nn),
                  !.item_frame = f % FRAMES_PER_ITEM(rv),
                  !.draw_raw = Rat(f % FRAMES_PER_ITEM(rv), FRAMES_PER_ITEM(rv)),
                  !.draw = circle_progress_of(rv, f, nn),
                  !.points = RTrunc(RMul(RInt(200), circle_progress_of(rv, f, nn)))]

\* PHASE 2 circles: alpha = max(0.75 - i * 0.01, 0.3)
Phase2Lines(nn) ==
    [k \in 1 .. nn |->
        Circle(k - 1, RMax(RSub(Rat(75, 100), RMul(RInt(k - 1), Rat(1, 100))), Rat(3, 10)))]

update_075224(a, f, nn) ==
    LET rv == "075224"
        ph == phase_of(rv, f, nn)
        ci == circle_idx_of(rv, f, nn)
        cp == circle_progress_of(rv, f, nn)
        ta == RDiv(RSub(cp, Rat(1, 2)), Rat(1, 2))
        l2 == f - PHASE1_FRAMES(rv, nn)
        p2 == phase_progress(l2, PHASE2_FRAMES(rv))
        t2 == ease_in_out(p2)
        la == RMin(RInt(1), RDiv(RSub(t2, Rat(3, 10)), Rat(4, 10)))
        l3 == f - PHASE1_FRAMES(rv, nn) - PHASE2_FRAMES(rv)
        p3 == phase_progress(l3, PHASE3_FRAMES(rv))
        t3 == ease_in_out(p3)
    IN  CASE ph = 1 ->
               [ok |-> TRUE,
                res |-> Phase1Res(rv, f, nn),
                art |-> [a EXCEPT
                    !.elev = RInt(90), !.azim = RInt(-90),
                    !.lines = ClearArtists(a.lines) \o Phase1Lines(rv, f, nn),
                    !.date_labels_3d = ClearArtists(a.date_labels_3d),
                    !.center_texts = ClearArtists(a.center_texts) \o
                        (IF ci < nn /\ RLt(Rat(1, 2), cp)
                         THEN << Text(Fmt1(vals(ci)), pct_color(vals(ci)),
                                      RMul(ta, Rat(95, 100))),
                                 Text(labels(ci), "#aaaaaa", RMul(ta, Rat(85, 100))) >>
                         ELSE <<>>)]]
          [] ph = 2 ->
               [ok |-> TRUE,
                res |-> [NoRes EXCEPT !.phase = 2, !.local = l2, !.prog = p2, !.t = t2],
                art |-> [a EXCEPT
                    !.elev = RSub(RInt(90), RMul(RInt(45), t2)),
                    !.azim = RAdd(RInt(-90), RMul(RInt(15), t2)),
                    !.lines = ClearArtists(a.lines) \o Phase2Lines(nn),
                    !.center_texts = ClearArtists(a.center_texts),
                    !.date_labels_3d = ClearArtists(a.date_labels_3d) \o
                        (IF RLt(Rat(3, 10), t2)
                         THEN LabelsEvery(1, nn, RMul(la, Rat(9, 10)))
                         ELSE <<>>)]]
          [] ph = 3 ->
               [ok |-> TRUE,
                res |-> [NoRes EXCEPT !.phase = 3, !.local = l3, !.prog = p3, !.t = t3],
                art |-> [a EXCEPT
                    !.elev = RSub(RInt(45), RMul(RInt(45), t3)),
                    !.azim = RAdd(RInt(-75), RMul(RInt(75), t3)),
                    !.lines = ClearArtists(a.lines) \o AllCircles(nn, Rat(85, 100)),
                    !.center_texts = ClearArtists(a.center_texts),
                    !.date_labels_3d = ClearArtists(a.date_labels_3d) \o
                        LabelsEvery(1, nn, Rat(9, 10))]]
          [] ph = 4 ->
               [ok |-> TRUE,
                res |-> [NoRes EXCEPT !.phase = 4],
                art |-> [a EXCEPT
                    !.elev = RInt(0), !.azim = RInt(0),
                    !.lines = ClearArtists(a.lines) \o AllCircles(nn, Rat(85, 100)),
                    !.center_texts = ClearArtists(a.center_texts),
                    !.date_labels_3d = ClearArtists(a.date_labels_3d) \o
                        LabelsEvery(1, nn, Rat(9, 10))]]

update_081346(a, f, nn) ==
    LET rv == "081346"
        ph == phase_of(rv, f, nn)
        ci == circle_idx_of(rv, f, nn)
        cp == circle_progress_of(rv, f, nn)
        ta == RDiv(RSub(cp, Rat(7, 10)), Rat(3, 10))
        \* fade = 1 - (frame % FRAMES_PER_CIRCLE) / (FRAMES_PER_CIRCLE * 0.3)
        fade == RSub(RInt(1), Rat(10 * (f % FRAMES_PER_ITEM(rv)), 3 * FRAMES_PER_ITEM(rv)))
        l2 == f - PHASE1_FRAMES(rv, nn)
        p2 == phase_progress(l2, PHASE2_FRAMES(rv))
        t2 == ease_in_out(p2)
        l3 == f - PHASE1_FRAMES(rv, nn) - PHASE2_FRAMES(rv)
        p3 == phase_progress(l3, PHASE3_FRAMES(rv))
        t3 == ease_in_out(p3)
        la == RMin(RInt(1), RDiv(RSub(t3, Rat(4, 10)), Rat(3, 10)))
        hide(x) == [x EXCEPT !.alpha = RInt(0)]
    IN  CASE ph = 1 ->
               [ok |-> TRUE,
                res |-> Phase1Res(rv, f, nn),
                art |-> [a EXCEPT
                    !.elev = RInt(90), !.azim = RInt(-90),
                    !.lines = ClearArtists(a.lines) \o Phase1Lines(rv, f, nn),
                    !.date_labels_3d = ClearArtists(a.date_labels_3d),
                    !.main =
                        IF ci >= nn THEN a.main
                        ELSE IF RLt(Rat(7, 10), cp)
                        THEN Text(Fmt1(vals(ci)), pct_color(vals(ci)), RMul(ta, Rat(8, 10)))
                        ELSE IF 10 * f < 3 * FRAMES_PER_ITEM(rv)
                        THEN [a.main EXCEPT !.alpha = RMul(fade, Rat(8, 10))]
                        ELSE hide(a.main),
                    !.date =
                        IF ci >= nn THEN a.date
                        ELSE IF RLt(Rat(7, 10), cp)
                        THEN [a.date EXCEPT !.txt = labels(ci), !.alpha = RMul(ta, Rat(7, 10))]
                        ELSE IF 10 * f < 3 * FRAMES_PER_ITEM(rv)
                        THEN [a.date EXCEPT !.alpha = RMul(fade, Rat(7, 10))]
                        ELSE hide(a.date)]]
          [] ph = 2 ->
               [ok |-> TRUE,
                res |-> [NoRes EXCEPT !.phase = 2, !.local = l2, !.prog = p2, !.t = t2],
                art |-> [a EXCEPT
                    !.elev = RSub(RInt(90), RMul(RInt(45), t2)),
                    !.azim = RAdd(RInt(-90), RMul(RInt(15), t2)),
                    !.lines = ClearArtists(a.lines) \o Phase2Lines(nn),
                    !.date_labels_3d = ClearArtists(a.date_labels_3d),
                    !.main = [a.main EXCEPT !.alpha = RMul(Rat(8, 10), RSub(RInt(1), t2))],
                    !.date = [a.date EXCEPT !.alpha = RMul(Rat(7, 10), RSub(RInt(1), t2))]]]
          [] ph = 3 ->
               [ok |-> TRUE,
                res |-> [NoRes EXCEPT !.phase = 3, !.local = l3, !.prog = p3, !.t = t3],
                art |-> [a EXCEPT
                    !.elev = RSub(RInt(45), RMul(RInt(45), t3)),
                    !.azim = RAdd(RInt(-75), RMul(RInt(75), t3)),
                    !.lines = ClearArtists(a.lines) \o AllCircles(nn, Rat(85, 100)),
                    !.date_labels_3d = ClearArtists(a.date_labels_3d) \o
                        (IF RLt(Rat(4, 10), t3)
                         THEN LabelsEvery(2, nn, RMul(la, Rat(85, 100)))
                         ELSE <<>>),
                    !.main = hide(a.main), !.date = hide(a.date)]]
          [] ph = 4 ->
               [ok |-> TRUE,
                res |-> [NoRes EXCEPT !.phase = 4],
                art |-> [a EXCEPT
                    !.elev = RInt(0), !.azim = RInt(0),
                    !.lines = ClearArtists(a.lines) \o AllCircles(nn, Rat(85, 100)),
                    !.date_labels_3d = ClearArtists(a.date_labels_3d) \o
                        LabelsEvery(2, nn, Rat(85, 100)),
                    !.main = hide(a.main), !.date = hide(a.date)]]

\* update(frame) of revision rv on the artists a with n = nn:
\* ok is FALSE when the call raises (an index out of range, a division by zero)
update(rv, a, f, nn) ==
    CASE rv = "133111" -> update_133111(a, f, nn)
      [] rv = "133304" -> update_133304(a, f, nn)
      [] rv = "133921" -> update_133921(a, f, nn)
      [] rv = "135008" -> update_135008(a, f, nn)
      [] rv = "135017" -> update_135017(a, f, nn)
      [] rv = "073806" -> update_073806(a, f, nn)
      [] rv = "075224" -> update_075224(a, f, nn)
      [] rv = "081346" -> update_081346(a, f, nn)


-----------------------------------------------------------------------------
(* The script: start-up, FuncAnimation and anim.save *)

\* init(): the pre-allocated lines are emptied; the 3D-transformation
\* revisions only return their (empty) lists
init(rv, a) ==
    [a EXCEPT !.lines = [k \in DOMAIN a.lines |-> EmptyLine],
              !.glows = [k \in DOMAIN a.glows |-> EmptyLine]]

Init ==
    /\ rev \in Revisions
    /\ n \in DataSizes
    /\ pc = "start"
    /\ frame = -1
    /\ calls = 0
    /\ res = NoRes
    /\ art = NoArt
    /\ vm = NoVm

\* module start-up: the guard "if n == 0: raise SystemExit" where there is
\* one, then the figure, the texts and the line storage
Start ==
    /\ pc = "start"
    /\ IF HasGuard(rev) /\ n = 0
       THEN pc' = "rejected" /\ art' = art
       ELSE pc' = "built" /\ art' = FigureSetup(rev, n)
    /\ UNCHANGED <<rev, n, frame, calls, res, vm>>

\* anim.save() first draws init_func
InitDraw ==
    /\ pc = "built"
    /\ pc' = "ready"
    /\ art' = init(rev, art)
    /\ UNCHANGED <<rev, n, frame, calls, res, vm>>

\* one call update(f) on the current artists
DoUpdate(f) ==
    \E u \in {update(rev, art, f, n)} :
        /\ frame' = f
        /\ calls' = 1
        /\ IF u.ok
           THEN pc' = "running" /\ res' = u.res /\ art' = u.art
           ELSE pc' = "crashed" /\ res' = res /\ art' = art
        /\ UNCHANGED <<rev, n, vm>>

\* a driver that passes every second frame to update()
StepSkipping ==
    /\ pc \in {"ready", "running"}
    /\ frame + 2 < total_frames(rev, n)
    /\ DoUpdate(frame + 2)

\* FuncAnimation(fig, update, frames=total_frames): the frames
\* 0 .. total_frames - 1 in order
Step ==
    /\ pc \in {"ready", "running"}
    /\ frame + 1 < total_frames(rev, n)
    /\ DoUpdate(frame + 1)

\* the frame sequence is exhausted: the movie is written, plt.close()
Finish ==
    /\ pc \in {"ready", "running"}
    /\ frame + 1 >= total_frames(rev, n)
    /\ pc' = "done"
    /\ UNCHANGED <<rev, n, frame, calls, res, art, vm>>

Next == Start \/ InitDraw \/ Step \/ Finish

Spec == Init /\ [][Next]_vars

\* the script has ended: the movie is written, the dataset was rejected, or
\* update() raised
Ended == pc \in {"done", "rejected", "crashed"}

\* the script is one sequential process: anim.save() runs its loop over
\* the frames to the end, so a step that is possible is eventually taken.
\* This is weak fairness of Next written out, []<>~ENABLED <<Next>>_vars \/
\* []<><<Next>>_vars: a step is possible in exactly the states that have not
\* ended (Start leaves "start", InitDraw leaves "built", Step or Finish is
\* possible in "ready" and "running" because their guards on frame are
\* complementary, and every one of them changes pc or frame)
SpecLive == Spec /\ ([]<>Ended \/ []<><<Next>>_vars)

-----------------------------------------------------------------------------
(* update() as a callable: any increasing sequence of frames, also beyond  *)
(* total_frames, and a frame rendered twice                                *)

Call ==
    /\ pc \in {"ready", "running"}
    /\ \E f \in (frame + 1) .. (frame + 1 + MaxSkip) :
          /\ f <= total_frames(rev, n) + MaxBeyond
          /\ DoUpdate(f)

Repeat ==
    /\ pc = "running"
    /\ calls < 2
    /\ \E u \in {update(rev, art, frame, n)} :
           /\ calls' = calls + 1
           /\ IF u.ok
              THEN pc' = pc /\ res' = u.res /\ art' = u.art
              ELSE pc' = "crashed" /\ res' = res /\ art' = art
    /\ UNCHANGED <<rev, n, frame, vm>>

NextCall == Start \/ InitDraw \/ Call \/ Repeat

SpecCall == Init /\ [][NextCall]_vars

-----------------------------------------------------------------------------
(* The value mapper applied to a dataset of two values v <= w *)

InitValue ==
    /\ rev \in Revisions
    /\ n = 2
    /\ pc = "value"
    /\ frame = -1
    /\ calls = 0
    /\ res = NoRes
    /\ art = NoArt
    /\ vm \in {[NoVm EXCEPT !.stage = "input", !.v = xy[1], !.w = xy[2]] :
                 xy \in {z \in ValueSet \X ValueSet : z[1] <= z[2]}}

\* radii = r_min + np.clip(vals / PCT_MAX, 0, 1) * (r_max - r_min), and the
\* colour and the status of the first value
MapValue ==
    /\ vm.stage = "input"
    /\ vm' = [vm EXCEPT !.stage = "mapped",
                        !.rv = radius_of(rev, vm.v, Max2(vm.v, vm.w)),
                        !.rw = radius_of(rev, vm.w, Max2(vm.v, vm.w)),
                        !.color = pct_color(vm.v),
                        !.status = IF HasStatus(rev) THEN get_status(vm.v) ELSE <<"", "">>]
    /\ UNCHANGED <<rev, n, pc, frame, calls, res, art>>

NextValue == MapValue

SpecValue == InitValue /\ [][NextValue]_vars

-----------------------------------------------------------------------------
(* The easings applied to the rationals k / N of a grid *)

\* the revisions that define ease_in_out, ease_out_cubic, and that ease the
\* draw progress with the inline 1 - (1 - p) ** 2
HasEaseInOut(rv) == rv \in {"133111", "133304", "073806", "075224", "081346"}
HasEaseOutCubic(rv) == rv \in {"075224", "081346"}
HasEaseOutQuad(rv) == rv \in DrawHold

\* the argument t = k / N and the results of the easings of the revision;
\* in SpecEase the variable vm holds this record
EaseInput(k, N) ==
    [stage |-> "argument", k |-> k, N |-> N, t |-> Rat(k, N),
     in_out |-> NoRat, in_out_mirror |-> NoRat, out_cubic |-> NoRat, out_quad |-> NoRat]

InitEase ==
    /\ rev \in {rv \in Revisions :
                  HasEaseInOut(rv) \/ HasEaseOutCubic(rv) \/ HasEaseOutQuad(rv)}
    /\ n = Len(rows)
    /\ pc = "ease"
    /\ frame = -1
    /\ calls = 0
    /\ res = NoRes
    /\ art = NoArt
    /\ vm \in {EaseInput(kN[1], kN[2]) :
                 kN \in {z \in (0 .. MaxGrid) \X (1 .. MaxGrid) : z[1] <= z[2]}}

\* ease_in_out(t) and ease_in_out(1 - t), ease_out_cubic(t), 1 - (1 - t) ** 2
ApplyEase ==
    /\ vm.stage = "argument"
    /\ vm' = [vm EXCEPT
                 !.stage = "eased",
                 !.in_out = IF HasEaseInOut(rev) THEN ease_in_out(vm.t) ELSE NoRat,
                 !.in_out_mirror = IF HasEaseInOut(rev)
                                   THEN ease_in_out(RSub(RInt(1), vm.t)) ELSE NoRat,
                 !.out_cubic = IF HasEaseOutCubic(rev) THEN ease_out_cubic(vm.t) ELSE NoRat,
                 !.out_quad = IF HasEaseOutQuad(rev) THEN ease_out_quad(vm.t) ELSE NoRat]
    /\ UNCHANGED <<rev, n, pc, frame, calls, res, art>>

NextEase == ApplyEase

SpecEase == InitEase /\ [][NextEase]_vars

-----------------------------------------------------------------------------
(* Properties of the phase sequencing *)

\* the frame counts of the phases of a multi-phase revision, in order
PhaseCounts(rv, nn) ==
    IF rv = "133111"
    THEN << PHASE1_FRAMES(rv, nn), PHASE2_FRAMES(rv), PHASE3_FRAMES(rv) >>
    ELSE << PHASE1_FRAMES(rv, nn), PHASE2_FRAMES(rv), PHASE3_FRAMES(rv), HOLD_FRAMES(rv) >>

RECURSIVE PhaseStart(_, _, _)
\* the first frame of phase k: the sum of the counts of the phases before it
PhaseStart(rv, nn, k) ==
    IF k = 1 THEN 0 ELSE PhaseStart(rv, nn, k - 1) + PhaseCounts(rv, nn)[k - 1]

\* the phases whose half-open range [start, start + count) contains frame f
PhasesContaining(rv, nn, f) ==
    {k \in DOMAIN PhaseCounts(rv, nn) :
        /\ PhaseStart(rv, nn, k) <= f
        /\ f < PhaseStart(rv, nn, k) + PhaseCounts(rv, nn)[k]}

\* the branches of update() that compute a local frame: all but the final
\* hold of the 3D-transformation revisions, which draws a fixed picture
HasLocalFrame(rv, k) == k <= 3

\* a rendered frame of a multi-phase revision
MultiPhaseFrame == pc = "running" /\ rev \in MultiPhase

\* C1: in a multi-phase revision every frame of the export selects the one
\* phase whose half-open range [start, start + count) contains it, and the
\* local frame that branch works with is frame - start; the frame at which
\* a phase starts is rendered by that later phase.
C1_PhaseRanges ==
    MultiPhaseFrame =>
        /\ PhasesContaining(rev, n, frame) = {res.phase}
        /\ HasLocalFrame(rev, res.phase) =>
               res.local = frame - PhaseStart(rev, n, res.phase)

\* a boundary frame: the first frame of phase 3, rendered by phase 3
C1_Witness ==
    /\ MultiPhaseFrame
    /\ frame = PHASE1_FRAMES(rev, n) + PHASE2_FRAMES(rev)
    /\ res.phase = 3
    /\ res.local = 0

\* the last frame of the phase the current frame is in
LastFrameOfPhase(rv, nn, k) == PhaseStart(rv, nn, k) + PhaseCounts(rv, nn)[k] - 1

\* update() computed a phase progress on this frame
HasProgress == MultiPhaseFrame /\ res.prog # NoRat

\* C3 (as stated): the progress of a phase is within [0, 1], it is 0 on the
\* first frame of the phase and 1 on the last frame of the phase.
C3_ReachesOne ==
    HasProgress =>
        /\ RLe(RInt(0), res.prog) /\ RLe(res.prog, RInt(1))
        /\ frame = PhaseStart(rev, n, res.phase) => res.prog = RInt(0)
        /\ frame = LastFrameOfPhase(rev, n, res.phase) => res.prog = RInt(1)

\* C3 (amended): the progress of a phase is within [0, 1): it is 0 on the
\* first frame of the phase and (count - 1) / count on its last frame, so
\* it never is 1; the eased progress t stays within [0, 1) as well.
C3_HalfOpenProgress ==
    HasProgress =>
        /\ RLe(RInt(0), res.prog) /\ RLt(res.prog, RInt(1))
        /\ res.prog = Rat(frame - PhaseStart(rev, n, res.phase),
                          PhaseCounts(rev, n)[res.phase])
        /\ frame = PhaseStart(rev, n, res.phase) => res.prog = RInt(0)
        /\ frame = LastFrameOfPhase(rev, n, res.phase) =>
               res.prog = Rat(PhaseCounts(rev, n)[res.phase] - 1,
                              PhaseCounts(rev, n)[res.phase])
        /\ res.t # NoRat => RLe(RInt(0), res.t) /\ RLt(res.t, RInt(1))

\* the last frame of a phase with a progress, which is below 1 there
C3_Witness ==
    /\ HasProgress
    /\ res.phase \in {2, 3}
    /\ frame = LastFrameOfPhase(rev, n, res.phase)
    /\ RLt(res.prog, RInt(1))

-----------------------------------------------------------------------------
(* Properties of the per-item draw / hold loop *)

\* a rendered frame of a revision that draws an item and then holds it
DrawHoldFrame == pc = "running" /\ rev \in DrawHold

\* C4: in the draw/hold revisions the current item of every frame of the
\* export is frame div (draw frames + hold frames), and the progress before
\* the easing is (frame mod period) / draw frames while the item is drawn
\* and exactly 1 on every frame of the hold.
C4_ItemAndProgress ==
    DrawHoldFrame =>
        LET period == FRAMES_PER_ITEM(rev) + HOLD_FRAMES(rev)
            within == frame % period
        IN  /\ res.item = frame \div period
            /\ res.item_frame = within
            /\ res.draw_raw = IF within < FRAMES_PER_ITEM(rev)
                              THEN Rat(within, FRAMES_PER_ITEM(rev))
                              ELSE RInt(1)

\* a frame of the hold of an item that is not the first one
C4_Witness ==
    /\ DrawHoldFrame
    /\ res.item >= 1
    /\ res.item_frame > FRAMES_PER_ITEM(rev)
    /\ res.draw_raw = RInt(1)

-----------------------------------------------------------------------------
(* Properties of update() called outside the frames of the export *)

\* update() returned for a frame at or beyond the end of the animation
BeyondEnd == pc = "running" /\ frame >= total_frames(rev, n)

\* C2: for every frame at or beyond total_frames update() renders the
\* terminal state: the final phase with a progress of exactly 1 (where the
\* final phase has a progress), and in the per-item revisions the last item
\* n - 1 with a draw progress of exactly 1; never a progress above 1 and
\* never a draw that starts again.
C2_TerminalBeyondEnd ==
    BeyondEnd =>
        /\ rev \in MultiPhase =>
               /\ res.phase = Len(PhaseCounts(rev, n))
               /\ res.prog # NoRat => res.prog = RInt(1)
        /\ rev \in PerItem => res.item = n - 1
        /\ rev \in DrawHold =>
               /\ res.draw_raw = RInt(1)
               /\ res.draw = RInt(1)
               /\ res.points = NUM_POINTS(rev)

-----------------------------------------------------------------------------
(* Properties of the value mapper *)

\* the value mapper has mapped the two values v <= w
Mapped == vm.stage = "mapped"

\* C5: in every revision the radius is the clamped linear map of the value:
\* a value <= 0 has the minimum radius, a value >= PCT_MAX has the maximum
\* radius, and the radius does not decrease when the value grows.
C5_ClampedLinear ==
    Mapped =>
        /\ vm.v <= 0 => vm.rv = r_min(rev)
        /\ vm.v >= PCT_MAX => vm.rv = r_max(rev)
        /\ RLe(vm.rv, vm.rw)

\* C6: the band of a value has inclusive lower bounds: from 17 on CRITICAL
\* (red), from 9 below 17 WARNING (orange), from 6 below 9 MODERATE (light
\* orange), below 6 EXCELLENT (green), in pct_color of every revision and
\* in get_status of every revision that has one.
C6_InclusiveBands ==
    Mapped =>
        /\ vm.v >= 17000 => vm.color = "red"
        /\ (vm.v >= 9000 /\ vm.v < 17000) => vm.color = "orange"
        /\ (vm.v >= 6000 /\ vm.v < 9000) => vm.color = "light_orange"
        /\ vm.v < 6000 => vm.color = "green"
        /\ HasStatus(rev) =>
               /\ vm.v >= 17000 => vm.status[1] = "CRITICAL"
               /\ (vm.v >= 9000 /\ vm.v < 17000) => vm.status[1] = "WARNING"
               /\ (vm.v >= 6000 /\ vm.v < 9000) => vm.status[1] = "MODERATE"
               /\ vm.v < 6000 => vm.status[1] = "EXCELLENT"

\* the value 6.0, on the lowest threshold, mapped to the higher band
C6_Witness ==
    /\ Mapped
    /\ HasStatus(rev)
    /\ vm.v = 6000
    /\ vm.color = "light_orange"
    /\ vm.status[1] = "MODERATE"

\* the revisions with PCT_MAX = 22 and the radii 0.3 .. 1.2
Radii03To12 ==
    /\ rev \in {"133111", "133304"}
    /\ r_min(rev) = Rat(3, 10)
    /\ r_max(rev) = Rat(12, 10)

\* the radius in thousandths, rounded, of 5.0 / 10.0 / 20.0 where the value
\* mapper was given that value
RadiiAre(r5, r10, r20) ==
    /\ vm.v = 5000 => RMilli(vm.rv) = r5
    /\ vm.w = 5000 => RMilli(vm.rw) = r5
    /\ vm.v = 10000 => RMilli(vm.rv) = r10
    /\ vm.w = 10000 => RMilli(vm.rw) = r10
    /\ vm.v = 20000 => RMilli(vm.rv) = r20
    /\ vm.w = 20000 => RMilli(vm.rw) = r20

\* C7 (as stated): with PCT_MAX = 22 and the radii 0.3 .. 1.2 the values
\* 5.0, 10.0 and 20.0 have the radii 0.349, 0.645 and 1.091.
C7_RadiiAsStated == (Mapped /\ Radii03To12) => RadiiAre(349, 645, 1091)

\* C7 (amended): with PCT_MAX = 22 and the radii 0.3 .. 1.2 the values
\* 5.0, 10.0 and 20.0 have the radii 0.505, 0.709 and 1.118 (to three
\* decimals): 0.3 + v / 22 * 0.9.
C7_RadiiOfTheCode == (Mapped /\ Radii03To12) => RadiiAre(505, 709, 1118)

\* the values 10.0 and 20.0 mapped by a revision with the radii 0.3 .. 1.2
C7_Witness ==
    /\ Mapped
    /\ Radii03To12
    /\ vm.v = 10000 /\ vm.w = 20000
    /\ RMilli(vm.rv) = 709 /\ RMilli(vm.rw) = 1118

-----------------------------------------------------------------------------
(* Properties of the rendered state *)

\* what update(f) renders on the artists as init() leaves them, with no
\* frame rendered before
FreshRender(rv, nn, f) == update(rv, init(rv, FigureSetup(rv, nn)), f, nn).art

\* C8: the rendered state after update(f) is a function of the frame and of
\* the static configuration alone: it is what update(f) renders when no
\* frame was rendered before, whatever frames were rendered before.
C8_PureFunctionOfFrame ==
    pc = "running" => art = FreshRender(rev, n, frame)

\* C9: a second call update(f) right after update(f) returns normally and
\* leaves the rendered state, and the values it computed, exactly as the
\* first call left them.
C9_RepeatIsIdempotent ==
    [][calls' = 2 => (pc' = "running" /\ art' = art /\ res' = res)]_vars

\* a frame rendered twice in a revision that removes and recreates its
\* artists on every call, with artists on the figure
C9_Witness ==
    /\ pc = "running"
    /\ calls = 2
    /\ rev \in Cylinder3D
    /\ art.lines # <<>>
    /\ art.date_labels_3d # <<>>

\* C10: an empty dataset is rejected at start-up in every revision: with
\* n = 0 the program gets no further than the start-up guard, so no figure
\* is built and update() is not called.
C10_EmptyRejected ==
    n = 0 => pc \in {"start", "rejected"}

-----------------------------------------------------------------------------
(* Properties of the length of the run *)

RECURSIVE SumTo(_, _)
\* the sum of the first k entries of a sequence of numbers
SumTo(xs, k) == IF k = 0 THEN 0 ELSE SumTo(xs, k - 1) + xs[k]

\* the frames of one item in a per-item revision: the draw and the hold
PeriodOf(rv) == FRAMES_PER_ITEM(rv) + HOLD_FRAMES(rv)

\* the export has ended after at least one frame
ExportDone == pc = "done" /\ frame >= 0

\* C11: total_frames is the sum of the frame counts of the phases update()
\* tells apart (n times the item period in the per-item revisions), so the
\* last frame of the export is the last frame of the final phase (of the
\* last item).
C11_TotalIsSumOfPhases ==
    /\ rev \in MultiPhase =>
           total_frames(rev, n) = SumTo(PhaseCounts(rev, n), Len(PhaseCounts(rev, n)))
    /\ rev \in PerItem => total_frames(rev, n) = n * PeriodOf(rev)
    /\ ExportDone =>
           /\ frame = total_frames(rev, n) - 1
           /\ rev \in MultiPhase =>
                  /\ res.phase = Len(PhaseCounts(rev, n))
                  /\ frame = LastFrameOfPhase(rev, n, res.phase)
           /\ rev \in PerItem => res.item = n - 1
           /\ rev \in DrawHold => res.item_frame = PeriodOf(rev) - 1

\* the export of a revision with a hold phase has ended on the last frame of
\* the hold
C11_Witness ==
    /\ ExportDone
    /\ rev \in Cylinder3D
    /\ res.phase = 4
    /\ frame = total_frames(rev, n) - 1

-----------------------------------------------------------------------------
(* Properties of the easings *)

\* ease_in_out was applied to t and to 1 - t
EasedInOut == pc = "ease" /\ vm.stage = "eased" /\ HasEaseInOut(rev)

\* C12: ease_in_out(0) = 0, ease_in_out(1) = 1, ease_in_out(1/2) = 1/2, and
\* ease_in_out(t) + ease_in_out(1 - t) = 1 for every t = k / N of the grid.
C12_EaseInOutSymmetric ==
    EasedInOut =>
        /\ vm.t = RInt(0) => vm.in_out = RInt(0)
        /\ vm.t = RInt(1) => vm.in_out = RInt(1)
        /\ vm.t = Rat(1, 2) => vm.in_out = Rat(1, 2)
        /\ RAdd(vm.in_out, vm.in_out_mirror) = RInt(1)

\* t = 1/4: ease_in_out(1/4) = 5/32 and ease_in_out(3/4) = 27/32
C12_Witness ==
    /\ EasedInOut
    /\ vm.t = Rat(1, 4)
    /\ vm.in_out = Rat(5, 32)
    /\ vm.in_out_mirror = Rat(27, 32)

-----------------------------------------------------------------------------
(* Properties of the export run *)

\* a step in which the driver calls update()
UpdateCalled == pc \in {"ready", "running"} /\ pc' \in {"running", "crashed"}

\* C13: an export that was started ends only after update() has been called
\* for every frame up to total_frames - 1 (with total_frames = 0 that is no
\* call at all)
C13_EveryFrameRendered ==
    Ended => (pc = "rejected" \/ frame = total_frames(rev, n) - 1)

\* C13, what the export does in every run: each call of update() is for the
\* frame after the last one (the first for frame 0), once, no frame is at or
\* beyond total_frames, the run ends, and where it ends with the movie
\* written the last frame was total_frames - 1; nothing happens after the
\* end.  A run in which update() raises ends at that frame.
C13_FiniteOrderedExport ==
    /\ [][/\ UpdateCalled => (frame' = frame + 1 /\ calls' = 1)
          /\ ~UpdateCalled => frame' = frame]_vars
    /\ [](frame >= -1 /\ frame < total_frames(rev, n))
    /\ [](pc = "done" => frame = total_frames(rev, n) - 1)
    /\ [][~Ended]_vars
    /\ <>[]Ended

\* the movie of the full dataset is written after the last frame
C13_Witness ==
    /\ pc = "done"
    /\ n = Len(rows)
    /\ frame = total_frames(rev, n) - 1
    /\ calls = 1

(* The subscripts of update() *)

\* x[i] on a sequence of length len: Python accepts -len <= i < len
InBounds(i, len) == -len <= i /\ i < len

\* the subscripts i \in S into a sequence of length len, as <<i, len>>
Over(S, len) == {<<i, len>> : i \in S}

\* per-item revisions: for k, j in enumerate(recent) uses vals[j] and the
\* radius of j, circles_3d[j] / glows_3d[j] (133304) or trail_lines[k] /
\* glow_lines[k] (the others); the current item is skipped while it has
\* fewer than two points; then vals[i] and labels[i]
index_uses_per_item(rv, f, nn) ==
    LET i == item_index(rv, f, nn)
        start == trail_start(rv, i)
        drawn == {j \in start .. i :
                     j < i \/ rv = "135008" \/ points_to_draw_of(rv, f) >= 2}
    IN  Over(drawn, nn) \cup Over({i}, nn) \cup
        (IF rv = "133304" THEN {} ELSE Over({j - start : j \in drawn}, TRAIL(rv)))

\* 133111: radii[idx], vals[idx], labels[idx] and circles_3d[0] in phase 1,
\* i in range(min(num_show, n)) in phase 2, i in range(num_show) and
\* num_show - 1 (if num_show > 0) in phase 3
index_uses_133111(f, nn) ==
    LET rv == "133111"
        ph == phase_of(rv, f, nn)
        idx == Min2(RTrunc(RMul(phase_progress(f, PHASE1_FRAMES(rv, nn)), RInt(nn))),
                    nn - 1)
        l2 == f - PHASE1_FRAMES(rv, nn)
        show2 == RTrunc(RMul(ease_in_out(phase_progress(l2, PHASE2_FRAMES(rv))),
                             RInt(8))) + 1
        l3 == f - PHASE1_FRAMES(rv, nn) - PHASE2_FRAMES(rv)
        show3 == Min2(RTrunc(RMul(phase_progress(l3, PHASE3_FRAMES(rv)), RInt(nn))), nn)
    IN  CASE ph = 1 -> Over({idx, 0}, nn)
          [] ph = 2 -> Over(0 .. (Min2(show2, nn) - 1), nn)
          [] ph = 3 -> Over(0 .. (show3 - 1), nn)

\* 073806: i in range(item_idx + 1) and item_idx in phase 1, i in range(n)
\* afterwards (the date labels are for every third or second of these)
index_uses_073806(f, nn) ==
    LET rv == "073806"
        raw == RTrunc(RMul(phase_progress(f, PHASE1_FRAMES(rv, nn)), RInt(nn)))
        idx == IF raw >= nn THEN nn - 1 ELSE raw
    IN  IF InPhase1(rv, f, nn) THEN Over(0 .. idx, nn) ELSE Over(0 .. (nn - 1), nn)

\* 075224, 081346: i in range(circle_idx) and, once the current circle has
\* two points, circle_idx in phase 1; i in range(n) afterwards
index_uses_cylinder(rv, f, nn) ==
    LET ci == circle_idx_of(rv, f, nn)
        np == RTrunc(RMul(RInt(200), circle_progress_of(rv, f, nn)))
    IN  IF InPhase1(rv, f, nn)
        THEN Over(0 .. (ci - 1), nn) \cup
             (IF ci < nn /\ np >= 2 THEN Over({ci}, nn) ELSE {})
        ELSE Over(0 .. (nn - 1), nn)

\* every subscript update(f) uses into vals, labels, the radius array and
\* the line lists
index_uses(rv, f, nn) ==
    CASE rv \in PerItem -> index_uses_per_item(rv, f, nn)
      [] rv = "133111" -> index_uses_133111(f, nn)
      [] rv = "073806" -> index_uses_073806(f, nn)
      [] rv \in {"075224", "081346"} -> index_uses_cylinder(rv, f, nn)

\* update() has been called for the frame in the variable frame
Called == pc \in {"running", "crashed"}

\* C14: whenever update(f) is called, for a frame inside or beyond
\* total_frames, every subscript it uses is within bounds and the call does
\* not raise
C14_IndicesInBounds ==
    Called =>
        /\ \A u \in index_uses(rev, frame, n) : InBounds(u[1], u[2])
        /\ pc = "running"

\* C14, what the code does: with at least one data row every subscript of
\* every call is within bounds and no call raises; a call raises only on the
\* empty dataset, in the revisions that build the figure for it
C14_FailsOnlyWhenEmpty ==
    Called =>
        /\ n >= 1 => (pc = "running" /\
                      \A u \in index_uses(rev, frame, n) : InBounds(u[1], u[2]))
        /\ pc = "crashed" => (n = 0 /\ ~HasGuard(rev))

\* C15: over the export of a multi-phase revision the phase never goes
\* back: a frame is rendered by the phase of the frame before it, as long as
\* that phase has frames left, or by the next phase, which then is on its
\* first frame; so every phase is active on exactly its frame count of
\* consecutive frames, and the export ends on the last frame of the final
\* phase, which no other phase follows.
C15_PhasesInOrder ==
    /\ [][(rev \in MultiPhase /\ pc' = "running") =>
             \/ /\ res'.phase = res.phase
                /\ frame' <= LastFrameOfPhase(rev, n, res.phase)
             \/ /\ res'.phase = res.phase + 1
                /\ frame' = PhaseStart(rev, n, res'.phase)
                /\ res.phase > 0 => frame = LastFrameOfPhase(rev, n, res.phase)]_vars
    /\ []((rev \in MultiPhase /\ ExportDone) =>
             /\ res.phase = Len(PhaseCounts(rev, n))
             /\ frame = LastFrameOfPhase(rev, n, res.phase))

\* the first frame of the final hold, after the last frame of phase 3
C15_Witness ==
    /\ MultiPhaseFrame
    /\ rev \in Cylinder3D
    /\ res.phase = 4
    /\ frame = PhaseStart(rev, n, 4)

\* the phase in which update() goes through the items one by one: the whole
\* run of a per-item revision, phase 1 of a multi-phase revision
ItemPhase(rv, ph) == rv \in PerItem \/ (rv \in MultiPhase /\ ph = 1)

\* the last frame of the item-by-item phase
LastItemFrame(rv, nn) ==
    IF rv \in PerItem THEN total_frames(rv, nn) - 1 ELSE PHASE1_FRAMES(rv, nn) - 1

\* C16: over the in-order frames of the item-by-item phase the current item
\* starts at 0, is the item of the frame before or the one after it, and is
\* n - 1 on the last frame of the phase; so it never decreases, skips no
\* item, and every item 0 .. n-1 is the current one on some frame.
C16_ItemsInOrder ==
    /\ [][(pc' = "running" /\ ItemPhase(rev, res'.phase)) =>
             IF frame' = 0 THEN res'.item = 0
             ELSE res'.item \in {res.item, res.item + 1}]_vars
    /\ []((pc = "running" /\ frame = LastItemFrame(rev, n)) => res.item = n - 1)

\* the last row of the full dataset is the current item in phase 1 of the
\* first revision and of the first 3D-transformation revision
C16_Witness ==
    /\ pc = "running"
    /\ rev \in {"133111", "073806"}
    /\ n = Len(rows)
    /\ res.phase = 1
    /\ res.item = n - 1

-----------------------------------------------------------------------------
(* Properties of the circles and the texts of the cylinder revisions *)

\* the data points that have a circle on the figure
DrawnItems(a) ==
    {a.lines[k].item : k \in {j \in DOMAIN a.lines : a.lines[j].pts > 0}}

\* a rendered frame of phase 3 of the three-phase revision
Phase3Of133111 == pc = "running" /\ rev = "133111" /\ res.phase = 3

\* C17: on the last frame of the export of the three-phase revision all n
\* circles are drawn, the one of the last data point n - 1 included.
C17_CompleteCylinder ==
    (Phase3Of133111 /\ frame = total_frames(rev, n) - 1) =>
        DrawnItems(art) = 0 .. (n - 1)

\* C18: in the revisions that accumulate circles the number of data points
\* with a circle on the figure never goes down from a frame to the next.
C18_CirclesNeverFewer ==
    [][(rev \in MultiPhase /\ pc = "running" /\ pc' = "running") =>
          Cardinality(DrawnItems(art')) >= Cardinality(DrawnItems(art))]_vars

\* C19: on every frame of phase 3 of the three-phase revision the date text
\* is the label of the circle added last and the value text is its value;
\* the text of phase 2 is not shown any more.
C19_Phase3Texts ==
    Phase3Of133111 =>
        /\ art.date.txt # "Building Cylinder..."
        /\ res.num_show > 0 =>
               /\ art.date.txt = labels(res.num_show - 1)
               /\ art.main.txt = Fmt2(vals(res.num_show - 1))
               /\ art.main.color = pct_color(vals(res.num_show - 1))

\* C20: in phase 3 of the three-phase revision, among the circles other
\* than the highlighted current one, a circle added earlier is never more
\* opaque than a circle added later.
C20_OlderFadedMore ==
    Phase3Of133111 =>
        \A i, j \in 1 .. (res.num_show - 1) :
            i < j => RLe(art.lines[i].alpha, art.lines[j].alpha)

\* the data points that have a 3D date label on the figure
LabelledItems(a) == {a.date_labels_3d[k].item : k \in DOMAIN a.date_labels_3d}

\* a rendered frame of the hold phase of the first 3D-transformation revision
HoldOf073806 == pc = "running" /\ rev = "073806" /\ res.phase = 4

\* C21: on every frame of the final hold phase of the first
\* 3D-transformation revision every one of the n data points has its date
\* label on the figure.
C21_HoldShowsAllLabels ==
    HoldOf073806 => LabelledItems(art) = 0 .. (n - 1)

\* C21, what the code shows: the labels of the data points 0, 2, 4, ...
C21_HoldShowsEverySecondLabel ==
    HoldOf073806 => LabelledItems(art) = {i \in 0 .. (n - 1) : i % 2 = 0}

-----------------------------------------------------------------------------
(* Properties of the trail of the per-item revisions *)

\* the revisions that draw into TRAIL pre-allocated lines
TrailSlots == {"133921", "135008", "135017"}

\* a rendered frame of a per-item revision
PerItemFrame == pc = "running" /\ rev \in PerItem

\* the items of recent: the last min(i + 1, TRAIL) items ending at i
Eligible(rv, i) == Max2(0, i - TRAIL(rv) + 1) .. i

DrawnLines(a) == {k \in DOMAIN a.lines : a.lines[k].pts > 0}

\* C23: in the draw / hold revisions with a trail, among the circles drawn
\* on a frame the opacity does not decrease from an older to a newer one,
\* and the circle of the current item, once it is drawn next to others, is
\* strictly more opaque than every previous one.
C23_OpacityByAge ==
    (pc = "running" /\ rev \in DrawHold) =>
        \A k1, k2 \in DrawnLines(art) :
            k1 < k2 =>
                /\ art.lines[k1].item < art.lines[k2].item
                /\ RLe(art.lines[k1].alpha, art.lines[k2].alpha)
                /\ art.lines[k2].item = res.item =>
                       RLt(art.lines[k1].alpha, art.lines[k2].alpha)

\* a frame with the current circle and at least two previous ones of
\* different opacity
C23_Witness ==
    /\ pc = "running" /\ rev = "133921"
    /\ \E k1, k2, k3 \in DrawnLines(art) :
          /\ k1 < k2 /\ k2 < k3
          /\ art.lines[k3].item = res.item
          /\ RLt(art.lines[k1].alpha, art.lines[k2].alpha)
          /\ RLt(art.lines[k2].alpha, art.lines[k3].alpha)

\* the line that shows the circle of the current item (the last of recent)
CurrentLine(a) == a.lines[CHOOSE k \in DOMAIN a.lines : a.lines[k].item = res.item]

\* a rendered frame of the 2D hand-drawn revision
FrameOf135008 == pc = "running" /\ rev = "135008"

\* C24: in the 2D hand-drawn revision the circle of the current item is on
\* the figure at opacity 0.85 on every frame, also while it is the only
\* visible item (current item 0).
C24_CurrentAtTopOpacity ==
    FrameOf135008 =>
        /\ res.item \in DrawnItems(art)
        /\ CurrentLine(art).alpha = Rat(85, 100)

\* C24, what the code does: 0.85 from the second item on, 0.15 while item 0
\* is the current one
C24_FirstItemFaint ==
    FrameOf135008 =>
        /\ res.item \in DrawnItems(art)
        /\ CurrentLine(art).alpha = IF res.item = 0 THEN Rat(15, 100) ELSE Rat(85, 100)

-----------------------------------------------------------------------------
(* Properties of the texts and the drawing of the per-item revisions *)

\* a rendered frame of a per-item revision that fades its texts in
FadeInFrame == pc = "running" /\ rev \in {"133304", "135017"}

\* C25: the centre value text fades in over the first 10 frames of each item
\* (opacity item_frame / 10 of the nominal 0.95) and is at 0.95 on every
\* frame with item_frame >= 10.
C25_TextBackAtFull ==
    FadeInFrame =>
        art.main.alpha = IF res.item_frame < 10
                         THEN RMul(Rat(res.item_frame, 10), Rat(95, 100))
                         ELSE Rat(95, 100)

\* C25, what the code does: after the fade-in the text stays at the opacity
\* of item_frame = 9, which is 0.9 * 0.95 = 0.855
C25_TextStaysBelowFull ==
    FadeInFrame =>
        art.main.alpha = IF res.item_frame < 10
                         THEN RMul(Rat(res.item_frame, 10), Rat(95, 100))
                         ELSE Rat(855, 1000)

\* C26: within one item the number of points drawn of the current circle
\* never goes down from a frame to the next, is 0 on the item's first frame
\* (the circle is not on the figure), and is the full point count, with the
\* whole circle on the figure, on every frame of the hold sub-phase.
C26_PointsGrowToFull ==
    /\ [](DrawHoldFrame =>
            /\ res.item_frame = 0 =>
                   (res.points = 0 /\ res.item \notin DrawnItems(art))
            /\ res.item_frame >= FRAMES_PER_ITEM(rev) =>
                   /\ res.points = NUM_POINTS(rev)
                   /\ res.item \in DrawnItems(art)
                   /\ CurrentLine(art).pts = NUM_POINTS(rev))
    /\ [][(DrawHoldFrame /\ pc' = "running" /\ res'.item = res.item) =>
              res'.points >= res.points]_vars

\* a hold frame of a later item, reached through its drawing frames
C26_Witness ==
    /\ DrawHoldFrame /\ rev = "135017" /\ res.item >= 1
    /\ res.item_frame = FRAMES_PER_ITEM(rev) + 1
    /\ CurrentLine(art).pts = NUM_POINTS(rev)

-----------------------------------------------------------------------------
(* Properties of the camera and of the artists of the multi-phase revisions *)

\* a camera path whose side-view phase starts from the top-view azimuth
camera_restart(rv, ph, t) ==
    CASE ph = 1 -> << RInt(90), IF rv \in {"133111", "073806"} THEN RInt(0) ELSE RInt(-90) >>
      [] ph = 2 -> << RSub(RInt(90), RMul(RInt(45), t)), RAdd(RInt(-90), RMul(RInt(15), t)) >>
      [] ph = 3 -> << RSub(RInt(45), RMul(RInt(45), t)), RAdd(RInt(-90), RMul(RInt(90), t)) >>
      [] ph = 4 -> << RInt(0), RInt(0) >>

\* <<elev, azim>> of ax.view_init in phase ph at the phase's parameter t (the
\* eased progress; the plain progress in phase 3 of 133111)
camera(rv, ph, t) ==
    CASE rv = "133111" ->
           (CASE ph = 1 -> << RInt(90), RInt(0) >>
              [] ph = 2 -> << lerp(RInt(90), RInt(25), t), lerp(RInt(0), RInt(-60), t) >>
              [] ph = 3 -> << RInt(25), RAdd(RInt(-60), RMul(t, RInt(30))) >>)
      [] rv = "073806" ->
           (CASE ph = 1 -> << RInt(90), RInt(0) >>
              [] ph = 2 -> << RSub(RInt(90), RMul(RInt(40), t)), RInt(0) >>
              [] ph = 3 -> << RSub(RInt(50), RMul(RInt(50), t)),
                              RAdd(RInt(0), RMul(RInt(0), t)) >>
              [] ph = 4 -> << RInt(0), RInt(0) >>)
      [] rv \in {"075224", "081346"} ->
           (CASE ph = 1 -> << RInt(90), RInt(-90) >>
              [] ph = 2 -> << RSub(RInt(90), RMul(RInt(45), t)),
                              RAdd(RInt(-90), RMul(RInt(15), t)) >>
              [] ph = 3 -> << RSub(RInt(45), RMul(RInt(45), t)),
                              RAdd(RInt(-75), RMul(RInt(75), t)) >>
              [] ph = 4 -> << RInt(0), RInt(0) >>)

\* the parameter the rendered frame passed to the camera of its phase
CameraParam ==
    IF rev = "133111" /\ res.phase = 3 THEN res.prog
    ELSE IF res.phase \in {2, 3} THEN res.t
    ELSE RInt(0)

\* C27: the camera of every rendered frame is the one of its phase's
\* interpolation, every phase after the first starts (parameter 0) from the
\* elevation and azimuth the phase before it ends at (parameter 1), the first
\* frame of a phase is rendered with these values, and the hold phase keeps
\* the end values of the phase before it.
C27_CameraContinuous ==
    (pc = "running" /\ rev \in MultiPhase) =>
        /\ << art.elev, art.azim >> = camera(rev, res.phase, CameraParam)
        /\ res.phase >= 2 =>
              /\ camera(rev, res.phase, RInt(0)) = camera(rev, res.phase - 1, RInt(1))
              /\ frame = PhaseStart(rev, n, res.phase) =>
                     << art.elev, art.azim >> = camera(rev, res.phase - 1, RInt(1))
        /\ res.phase = 4 => << art.elev, art.azim >> = camera(rev, 3, RInt(1))

\* the first frame of the side-view phase, seen from where the tilt ended
C27_Witness ==
    /\ pc = "running" /\ rev = "081346" /\ res.phase = 3
    /\ frame = PhaseStart(rev, n, 3)
    /\ art.elev = RInt(45) /\ art.azim = RInt(-75)

\* C28: in the 3D-transformation revisions, after every update() the lists
\* lines, center_texts and date_labels_3d hold exactly the artists that this
\* frame creates on an empty figure, whatever was rendered before, and there
\* are never more than n + 1 lines.
C28_OnlyCurrentArtists ==
    (pc = "running" /\ rev \in Cylinder3D) =>
        /\ art.lines = FreshRender(rev, n, frame).lines
        /\ art.center_texts = FreshRender(rev, n, frame).center_texts
        /\ art.date_labels_3d = FreshRender(rev, n, frame).date_labels_3d
        /\ Len(art.lines) <= n + 1

\* the last circle being drawn over all the previous ones, with its glow:
\* n + 1 lines, after many frames have been rendered
C28_Witness ==
    /\ pc = "running" /\ rev = "075224" /\ n = Len(rows)
    /\ frame > FRAMES_PER_ITEM(rev) * (n - 1)
    /\ Len(art.lines) = n + 1
    /\ art.center_texts # <<>>

-----------------------------------------------------------------------------
(* Properties of the bands and of the easings *)

\* the band of a colour of pct_color, lowest values first
BandOfColor(c) ==
    CASE c = "green" -> 0
      [] c = "light_orange" -> 1
      [] c = "orange" -> 2
      [] c = "red" -> 3

\* the band of a status of get_status, lowest values first
BandOfStatus(s) ==
    CASE s = "EXCELLENT" -> 0
      [] s = "MODERATE" -> 1
      [] s = "WARNING" -> 2
      [] s = "CRITICAL" -> 3

\* C29: for every value pct_color and get_status choose the same band (green
\* with EXCELLENT, light orange with MODERATE, orange with WARNING, red with
\* CRITICAL), and a larger value never gets a lower band.
C29_SameBandMonotone ==
    Mapped =>
        /\ HasStatus(rev) =>
               /\ BandOfColor(vm.color) = BandOfStatus(vm.status[1])
               /\ BandOfStatus(get_status(vm.w)[1]) >= BandOfStatus(vm.status[1])
        /\ BandOfColor(pct_color(vm.w)) >= BandOfColor(vm.color)

\* a value on the WARNING threshold next to one on the CRITICAL threshold
C29_Witness ==
    /\ Mapped /\ HasStatus(rev)
    /\ vm.v = 9000 /\ vm.w = 17000
    /\ vm.color = "orange" /\ vm.status[1] = "WARNING"
    /\ pct_color(vm.w) = "red"

\* the easings were applied to the argument t
Eased == pc = "ease" /\ vm.stage = "eased"

\* the rationals j / M of the grid that are not below t
GridFrom(t) ==
    {u \in {Rat(jM[1], jM[2]) :
               jM \in {z \in (0 .. MaxGrid) \X (1 .. MaxGrid) : z[1] <= z[2]}} :
        RLe(t, u)}

\* y is within [0, 1]
InUnit(y) == RLe(RInt(0), y) /\ RLe(y, RInt(1))

\* C30: each easing of the code, ease_in_out, ease_out_cubic and the inline
\* 1 - (1 - p)^2, maps every t of the grid within [0, 1] into [0, 1], maps 0
\* to 0 and 1 to 1, and gives no smaller value at any larger argument of the
\* grid.
C30_EasingsMonotone ==
    Eased =>
        /\ HasEaseInOut(rev) =>
               /\ InUnit(vm.in_out)
               /\ vm.t = RInt(0) => vm.in_out = RInt(0)
               /\ vm.t = RInt(1) => vm.in_out = RInt(1)
               /\ \A u \in GridFrom(vm.t) : RLe(vm.in_out, ease_in_out(u))
        /\ HasEaseOutCubic(rev) =>
               /\ InUnit(vm.out_cubic)
               /\ vm.t = RInt(0) => vm.out_cubic = RInt(0)
               /\ vm.t = RInt(1) => vm.out_cubic = RInt(1)
               /\ \A u \in GridFrom(vm.t) : RLe(vm.out_cubic, ease_out_cubic(u))
        /\ HasEaseOutQuad(rev) =>
               /\ InUnit(vm.out_quad)
               /\ vm.t = RInt(0) => vm.out_quad = RInt(0)
               /\ vm.t = RInt(1) => vm.out_quad = RInt(1)
               /\ \A u \in GridFrom(vm.t) : RLe(vm.out_quad, ease_out_quad(u))

\* t = 1/3 in a revision with both named easings: 7/27 and 19/27
C30_Witness ==
    /\ Eased /\ rev = "075224"
    /\ vm.t = Rat(1, 3)
    /\ vm.in_out = Rat(7, 27)
    /\ vm.out_cubic = Rat(19, 27)

=============================================================================
